---- MODULE Spec2Model ----
(***************************************************************************)
(* Model of trader-orchestrator/src/ibkr: connector.py (class IBConnector)  *)
(* under the specification Spec, and market_data.py (class                 *)
(* MarketDataFetcher) under the specification SpecMD, further down.        *)
(*                                                                         *)
(* IBConnector:                                                            *)
(* the connect-with-retry / disconnect / keep_alive operations, the three  *)
(* event handlers wired to the ib_insync transport, and the list of status *)
(* callbacks.                                                              *)
(*                                                                         *)
(* The transport (ib_insync.IB) is not part of the repository.  It is      *)
(* modelled as the environment: ib.connect() either raises or returns, a   *)
(* returning connect opens the link and queues a connected notification,   *)
(* ib.disconnect() closes the link and queues a disconnected notification, *)
(* the gateway may queue error notifications or drop the link at any time, *)
(* and queued notifications reach the connector's handlers, in order, only *)
(* while the event loop runs inside ib.sleep(); a yield may end before the *)
(* queue is drained.  ib.sleep(), ib.isConnected() and ib.disconnect() do  *)
(* not raise, and a raising ib.connect() leaves the transport as it was.   *)
(***************************************************************************)
EXTENDS Integers, Sequences, FiniteSets, TLC

\* ---------------------------------------------------------------- bounds
MaxAttempts == 3        \* max_attempts is drawn from 0..MaxAttempts
MaxCallbacks == 2       \* longest list of registered status callbacks
MaxPending == 2         \* longest queue of undelivered notifications

\* The callables a caller registers in the model.
Observers == {"cb1", "cb2"}

\* ------------------------------------------------------------ program data
\* critical_errors with its last code left out
critical_errors_without_2110 == <<1100, 1101, 1102, 1300>>

\* connector.py:164
critical_errors == <<1100, 1101, 1102, 1300, 2110>>

\* errorCode in critical_errors (connector.py:166)
RECURSIVE InList(_, _)
InList(x, s) == IF s = <<>> THEN FALSE
                ELSE IF Head(s) = x THEN TRUE ELSE InList(x, Tail(s))

\* Error codes the gateway sends in the model: the five critical ones, their
\* numeric neighbours, and informational codes.
ErrorCodes == {1100, 1101, 1102, 1300, 2110, 1103, 2104, 502}

\* Notifications of the transport's three events (connector.py:50-52).
ConnectedN == <<"connected", 0>>
DisconnectedN == <<"disconnected", 0>>
ErrorN == <<"error", 0>>

VARIABLES
    connected,          \* self.connected
    status_callbacks,   \* self._status_callbacks
    max_attempts,       \* self.max_attempts
    ibConnected,        \* what self.ib.isConnected() answers
    pending,            \* notifications the transport has not delivered yet
    pc,                 \* where the caller's thread is
    attempt,            \* loop variable of connect()
    op,                 \* public operation in progress, or the last one
    result,             \* value returned by the last operation
    calls,              \* observer invocations <<callback, value>> of this operation
    delivered,          \* notifications handled during this operation
    nConnect,           \* ib.connect() invocations of this operation
    nRaised,            \* ... of which raised
    nBackoff,           \* time.sleep(1) waits of this operation
    nDisconnect,        \* ib.disconnect() invocations of this operation
    sleeps,             \* ib.sleep() arguments of this operation, in tenths
    startConnected,     \* self.connected when the operation was called
    startIb,            \* ib.isConnected() when the operation was called
    everIb,             \* some ib.connect() has returned without raising
    lastLifecycle,      \* last connected / disconnected / critical-error notification handled
    cycle               \* how far the last operations go along connect(), disconnect(), connect()

vars == <<connected, status_callbacks, max_attempts, ibConnected, pending, pc,
          attempt, op, result, calls, delivered, nConnect, nRaised, nBackoff,
          nDisconnect, sleeps, startConnected, startIb, everIb, lastLifecycle,
          cycle>>

\* MarketDataFetcher (market_data.py): the operation in progress
VARIABLES
    mdOp,               \* public operation in progress, or the last one
    mdPc,               \* the gateway call or loop header it stands at
    mdArgs,             \* its arguments
    last_price,         \* local last_price, 0 when falsy
    strikes,            \* chain.strikes
    expirations,        \* chain.expirations
    today,              \* datetime.now().date() as YYYYMMDD, 0 when not read
    idx,                \* position of the loop over chain.expirations
    option_chains,      \* local option_chains
    quotes,             \* the quotes read by this operation
    mdResult,           \* <<shape, value>> returned by the last operation
    gwCalls             \* gateway calls <<name, outcome>> of this operation

mdVars == <<mdOp, mdPc, mdArgs, last_price, strikes, expirations, today,
            idx, option_chains, quotes, mdResult, gwCalls>>

\* load_config (config/loader.py): the call in progress
VARIABLES
    path,               \* the YAML document at the path argument, as parsed
    config              \* <<outcome, value>> of the last load_config call

cfgVars == <<path, config>>

\* the loop over self._status_callbacks of a handler in progress
\* (connector.py:141-142, 148-149, 169-170)
VARIABLES
    loopIndex,          \* position of the list iterator
    loopValue,          \* the boolean the loop passes to each observer
    loopStart,          \* self._status_callbacks when the loop began
    loopRemoved,        \* observers removed while the loop was running
    loopInvoked,        \* observers the loop has invoked, in order
    loopYield           \* the yield the handler runs in

loopVars == <<loopIndex, loopValue, loopStart, loopRemoved, loopInvoked,
              loopYield>>

allVars == <<vars, mdVars, cfgVars, loopVars>>

\* IBConnector.__init__ (connector.py:24-46)
Init ==
    /\ connected = FALSE
    /\ status_callbacks = <<>>
    /\ max_attempts \in 0..MaxAttempts
    /\ ibConnected = FALSE
    /\ pending = <<>>
    /\ pc = "idle"
    /\ attempt = 0
    /\ op = "init"
    /\ result = FALSE
    /\ calls = <<>>
    /\ delivered = <<>>
    /\ nConnect = 0
    /\ nRaised = 0
    /\ nBackoff = 0
    /\ nDisconnect = 0
    /\ sleeps = <<>>
    /\ startConnected = FALSE
    /\ startIb = FALSE
    /\ everIb = FALSE
    /\ lastLifecycle = "none"
    /\ cycle = 0
    /\ mdOp = "init"
    /\ mdPc = "idle"
    /\ mdArgs = <<>>
    /\ last_price = 0
    /\ strikes = <<>>
    /\ expirations = <<>>
    /\ today = 0
    /\ idx = 0
    /\ option_chains = <<>>
    /\ quotes = <<>>
    /\ mdResult = <<"none", <<>>>>
    /\ gwCalls = <<>>
    /\ path = <<>>
    /\ config = <<"none", <<>>>>
    /\ loopIndex = 0
    /\ loopValue = FALSE
    /\ loopStart = <<>>
    /\ loopRemoved = {}
    /\ loopInvoked = <<>>
    /\ loopYield = "idle"

\* Entry of a public method: the per-operation records start afresh.
Enter(name) ==
    /\ pc = "idle"
    /\ op' = name
    /\ startConnected' = connected
    /\ startIb' = ibConnected

\* Notify walking the list from its end
NotifyReversed(log, value) ==
    log \o [i \in 1..Len(status_callbacks) |->
               <<status_callbacks[Len(status_callbacks) + 1 - i], value>>]

\* for callback in self._status_callbacks: callback(value)
\* (connector.py:141-142, 148-149, 169-170)
Notify(log, value) ==
    log \o [i \in 1..Len(status_callbacks) |-> <<status_callbacks[i], value>>]

\* ------------------------------------------------------------- connect()
\* The stage of the cycle connect(), disconnect(), connect() a finished
\* operation leaves: 1 after a connect() that began Disconnected and returned
\* True, 2 after a disconnect() that follows it at once and returned True,
\* 3 after a connect() that follows that at once and met an accepting
\* gateway; 0 otherwise.  Each operation handled its own notification only.
AfterConnect(res) ==
    IF cycle = 2 /\ nRaised = 0 /\ delivered = <<ConnectedN>> THEN 3
    ELSE IF res /\ ~startConnected /\ ~startIb /\ delivered = <<ConnectedN>>
         THEN 1
    ELSE 0

AfterDisconnect(res) ==
    IF cycle = 1 /\ res /\ delivered = <<DisconnectedN>> THEN 2 ELSE 0

\* HasRetry giving up one attempt early
HasRetryOneShort(a) == a + 1 < max_attempts

\* if attempt < self.max_attempts (connector.py:78)
HasRetry(a) == a < max_attempts

\* connect(), up to the first pass of the loop (connector.py:61-63).  With
\* max_attempts < 1 the loop body never runs and line 84 returns the flag.
connect_begin ==
    /\ Enter("connect")
    /\ calls' = <<>> /\ delivered' = <<>>
    /\ nConnect' = 0 /\ nRaised' = 0 /\ nBackoff' = 0 /\ nDisconnect' = 0
    /\ sleeps' = <<>>
    /\ IF 1 <= max_attempts
          THEN pc' = "connecting" /\ attempt' = 1 /\ result' = result
          ELSE pc' = "idle" /\ attempt' = 0 /\ result' = connected
    /\ UNCHANGED <<connected, status_callbacks, max_attempts, ibConnected,
                   pending, everIb, lastLifecycle>>
    /\ cycle' = IF 1 <= max_attempts /\ cycle = 2 THEN 2 ELSE 0
    /\ UNCHANGED <<mdVars, cfgVars, loopVars>>

\* One pass in which ib.connect() raises (connector.py:64-72, 76-82): wait one
\* second and go round again, or give up with False after the last attempt.
connect_raises ==
    /\ pc = "connecting"
    /\ nConnect' = nConnect + 1
    /\ nRaised' = nRaised + 1
    /\ IF HasRetry(attempt)
          THEN /\ nBackoff' = nBackoff + 1
               /\ attempt' = attempt + 1
               /\ pc' = "connecting"
               /\ result' = result
          ELSE /\ nBackoff' = nBackoff
               /\ attempt' = attempt
               /\ pc' = "idle"
               /\ result' = FALSE
    /\ UNCHANGED <<connected, status_callbacks, max_attempts, ibConnected,
                   pending, op, calls, delivered, nDisconnect, sleeps,
                   startConnected, startIb, everIb, lastLifecycle>>
    /\ cycle' = IF HasRetry(attempt) THEN cycle ELSE 0
    /\ UNCHANGED <<mdVars, cfgVars, loopVars>>

\* One pass in which ib.connect() returns (connector.py:66-74): the link is
\* up, its connected notification is queued, and ib.sleep(0.1) runs the loop.
connect_returns ==
    /\ pc = "connecting"
    /\ Len(pending) < MaxPending
    /\ nConnect' = nConnect + 1
    /\ ibConnected' = TRUE
    /\ everIb' = TRUE
    /\ pending' = Append(pending, ConnectedN)
    /\ sleeps' = Append(sleeps, 1)
    /\ pc' = "connect_yield"
    /\ UNCHANGED <<connected, status_callbacks, max_attempts, attempt, op,
                   result, calls, delivered, nRaised, nBackoff, nDisconnect,
                   startConnected, startIb, lastLifecycle>>
    /\ cycle' = cycle
    /\ UNCHANGED <<mdVars, cfgVars, loopVars>>

\* One pass in which ib.connect() returns and ib.sleep(0.1) raises
\* (connector.py:66-74, 76-82): the except clause takes it for a failed
\* attempt.  The raise is logged in sleeps as -1.
connect_sleep_raises ==
    /\ pc = "connect_yield"
    /\ sleeps' = Append(sleeps, -1)
    /\ IF HasRetry(attempt)
          THEN /\ nBackoff' = nBackoff + 1
               /\ attempt' = attempt + 1
               /\ pc' = "connecting"
               /\ result' = result
               /\ cycle' = cycle
          ELSE /\ nBackoff' = nBackoff
               /\ attempt' = attempt
               /\ pc' = "idle"
               /\ result' = FALSE
               /\ cycle' = 0
    /\ UNCHANGED <<connected, status_callbacks, max_attempts, ibConnected,
                   pending, op, calls, delivered, nConnect, nRaised,
                   nDisconnect, startConnected, startIb, everIb,
                   lastLifecycle>>
    /\ UNCHANGED <<mdVars, cfgVars, loopVars>>

\* ConnectResult reporting success as soon as ib.connect() has returned
ConnectResultOptimistic == TRUE

\* return self.connected (connector.py:84)
ConnectResult == connected

\* connect_return that also sets the flag itself
connect_return_setting_flag ==
    /\ pc = "connect_yield"
    /\ pc' = "idle"
    /\ connected' = TRUE
    /\ result' = TRUE
    /\ UNCHANGED <<status_callbacks, max_attempts, ibConnected,
                   pending, attempt, op, calls, delivered, nConnect, nRaised,
                   nBackoff, nDisconnect, sleeps, startConnected, startIb,
                   everIb, lastLifecycle>>
    /\ cycle' = AfterConnect(TRUE)
    /\ UNCHANGED <<mdVars, cfgVars, loopVars>>

\* ib.sleep(0.1) is over: break, return self.connected (connector.py:75, 84)
connect_return ==
    /\ pc = "connect_yield"
    /\ pc' = "idle"
    /\ result' = ConnectResult
    /\ UNCHANGED <<connected, status_callbacks, max_attempts, ibConnected,
                   pending, attempt, op, calls, delivered, nConnect, nRaised,
                   nBackoff, nDisconnect, sleeps, startConnected, startIb,
                   everIb, lastLifecycle>>
    /\ cycle' = AfterConnect(ConnectResult)
    /\ UNCHANGED <<mdVars, cfgVars, loopVars>>

\* ---------------------------------------------------------- disconnect()
\* DisconnectResult without the negation
DisconnectResultUnnegated == connected

\* return not self.connected (connector.py:98)
DisconnectResult == ~connected

\* DisconnectGuard dropped: ib.disconnect() is called every time
DisconnectGuardAlways == TRUE

\* if self.ib.isConnected() (connector.py:94)
DisconnectGuard == ibConnected

\* disconnect() up to its yield (connector.py:93-97), or all of it when the
\* transport answers that it is not connected (connector.py:94, 98).
disconnect_begin ==
    /\ Enter("disconnect")
    /\ DisconnectGuard => Len(pending) < MaxPending
    /\ calls' = <<>> /\ delivered' = <<>>
    /\ nConnect' = 0 /\ nRaised' = 0 /\ nBackoff' = 0
    /\ IF DisconnectGuard
          THEN /\ nDisconnect' = 1
               /\ ibConnected' = FALSE
               /\ pending' = Append(pending, DisconnectedN)
               /\ sleeps' = <<1>>
               /\ pc' = "disconnect_yield"
               /\ result' = result
          ELSE /\ nDisconnect' = 0
               /\ ibConnected' = ibConnected
               /\ pending' = pending
               /\ sleeps' = <<>>
               /\ pc' = "idle"
               /\ result' = DisconnectResult
    /\ UNCHANGED <<connected, status_callbacks, max_attempts, attempt, everIb,
                   lastLifecycle>>
    /\ cycle' = IF DisconnectGuard /\ cycle = 1 THEN 1 ELSE 0
    /\ UNCHANGED <<mdVars, cfgVars, loopVars>>

\* ib.sleep(0.1) is over: return not self.connected (connector.py:98)
disconnect_return ==
    /\ pc = "disconnect_yield"
    /\ pc' = "idle"
    /\ result' = DisconnectResult
    /\ UNCHANGED <<connected, status_callbacks, max_attempts, ibConnected,
                   pending, attempt, op, calls, delivered, nConnect, nRaised,
                   nBackoff, nDisconnect, sleeps, startConnected, startIb,
                   everIb, lastLifecycle>>
    /\ cycle' = AfterDisconnect(DisconnectResult)
    /\ UNCHANGED <<mdVars, cfgVars, loopVars>>

\* ------------------------------------------- is_connected(), keep_alive()
\* connector.py:100-107
is_connected ==
    /\ Enter("is_connected")
    /\ result' = connected
    /\ calls' = <<>> /\ delivered' = <<>>
    /\ nConnect' = 0 /\ nRaised' = 0 /\ nBackoff' = 0 /\ nDisconnect' = 0
    /\ sleeps' = <<>>
    /\ UNCHANGED <<connected, status_callbacks, max_attempts, ibConnected,
                   pending, pc, attempt, everIb, lastLifecycle>>
    /\ cycle' = 0
    /\ UNCHANGED <<mdVars, cfgVars, loopVars>>

\* if self.connected (connector.py:114)
KeepAliveGuardAlways == TRUE

KeepAliveGuard == connected

\* connector.py:109-115: ib.sleep(0) when connected, nothing otherwise
keep_alive ==
    /\ Enter("keep_alive")
    /\ calls' = <<>> /\ delivered' = <<>>
    /\ nConnect' = 0 /\ nRaised' = 0 /\ nBackoff' = 0 /\ nDisconnect' = 0
    /\ IF KeepAliveGuard
          THEN sleeps' = <<0>> /\ pc' = "keep_alive_yield"
          ELSE sleeps' = <<>> /\ pc' = "idle"
    /\ UNCHANGED <<connected, status_callbacks, max_attempts, ibConnected,
                   pending, attempt, result, everIb, lastLifecycle>>
    /\ cycle' = 0
    /\ UNCHANGED <<mdVars, cfgVars, loopVars>>

\* ib.sleep(0) is over
keep_alive_return ==
    /\ pc = "keep_alive_yield"
    /\ pc' = "idle"
    /\ UNCHANGED <<connected, status_callbacks, max_attempts, ibConnected,
                   pending, attempt, op, result, calls, delivered, nConnect,
                   nRaised, nBackoff, nDisconnect, sleeps, startConnected,
                   startIb, everIb, lastLifecycle>>
    /\ cycle' = 0
    /\ UNCHANGED <<mdVars, cfgVars, loopVars>>

\* ------------------------------------------------------ status callbacks
RemoveEvery(s, x) == SelectSeq(s, LAMBDA y : y # x)

\* list.remove(x): drop the first element equal to x
RECURSIVE RemoveFirst(_, _)
RemoveFirst(s, x) ==
    IF s = <<>> THEN <<>>
    ELSE IF Head(s) = x THEN Tail(s)
    ELSE <<Head(s)>> \o RemoveFirst(Tail(s), x)

\* connector.py:117-124
add_status_callback(cb) ==
    /\ Enter("add_status_callback")
    /\ Len(status_callbacks) < MaxCallbacks
    /\ status_callbacks' = Append(status_callbacks, cb)
    /\ calls' = <<>> /\ delivered' = <<>>
    /\ nConnect' = 0 /\ nRaised' = 0 /\ nBackoff' = 0 /\ nDisconnect' = 0
    /\ sleeps' = <<>>
    /\ UNCHANGED <<connected, max_attempts, ibConnected, pending, pc, attempt,
                   result, everIb, lastLifecycle>>
    /\ cycle' = 0
    /\ UNCHANGED <<mdVars, cfgVars, loopVars>>

\* connector.py:126-134
remove_status_callback(cb) ==
    /\ Enter("remove_status_callback")
    /\ status_callbacks' = IF InList(cb, status_callbacks)
                              THEN RemoveFirst(status_callbacks, cb)
                              ELSE status_callbacks
    /\ calls' = <<>> /\ delivered' = <<>>
    /\ nConnect' = 0 /\ nRaised' = 0 /\ nBackoff' = 0 /\ nDisconnect' = 0
    /\ sleeps' = <<>>
    /\ UNCHANGED <<connected, max_attempts, ibConnected, pending, pc, attempt,
                   result, everIb, lastLifecycle>>
    /\ cycle' = 0
    /\ UNCHANGED <<mdVars, cfgVars, loopVars>>

\* ------------------------------------------------------- event handlers
\* The caller's thread is inside ib.sleep(): the event loop runs.
InYield == pc \in {"connect_yield", "disconnect_yield", "keep_alive_yield"}

\* Which lifecycle event a notification is: the codes are those the gateway
\* documents as loss of connectivity.
Lifecycle(n) ==
    IF n[1] = "error"
       THEN IF n[2] \in {1100, 1101, 1102, 1300, 2110} THEN "critical" ELSE "other"
       ELSE n[1]

\* The event loop takes the oldest pending notification n and emits its event
\* (handlers registered at connector.py:50-52).
Dispatch(n) ==
    /\ InYield
    /\ pending # <<>>
    /\ Head(pending)[1] = n[1]
    /\ pending' = Tail(pending)
    /\ delivered' = Append(delivered, n)
    /\ lastLifecycle' = IF Lifecycle(n) = "other" THEN lastLifecycle
                                                 ELSE Lifecycle(n)

\* on_connected that takes Disconnected for final: a connected notification
\* after a disconnected one is dropped
on_connected_first_only ==
    /\ Dispatch(ConnectedN)
    /\ IF lastLifecycle = "disconnected"
          THEN connected' = connected /\ calls' = calls
          ELSE connected' = TRUE /\ calls' = Notify(calls, TRUE)
    /\ UNCHANGED <<status_callbacks, max_attempts, ibConnected, pc, attempt,
                   op, result, nConnect, nRaised, nBackoff, nDisconnect,
                   sleeps, startConnected, startIb, everIb>>
    /\ cycle' = cycle
    /\ UNCHANGED <<mdVars, cfgVars, loopVars>>

\* connector.py:137-142
on_connected ==
    /\ Dispatch(ConnectedN)
    /\ connected' = TRUE
    /\ calls' = Notify(calls, TRUE)
    /\ UNCHANGED <<status_callbacks, max_attempts, ibConnected, pc, attempt,
                   op, result, nConnect, nRaised, nBackoff, nDisconnect,
                   sleeps, startConnected, startIb, everIb>>
    /\ cycle' = cycle
    /\ UNCHANGED <<mdVars, cfgVars, loopVars>>

\* on_disconnected that tells the observers and leaves the flag alone
on_disconnected_keeping_flag ==
    /\ Dispatch(DisconnectedN)
    /\ connected' = connected
    /\ calls' = Notify(calls, FALSE)
    /\ UNCHANGED <<status_callbacks, max_attempts, ibConnected, pc, attempt,
                   op, result, nConnect, nRaised, nBackoff, nDisconnect,
                   sleeps, startConnected, startIb, everIb>>
    /\ cycle' = cycle
    /\ UNCHANGED <<mdVars, cfgVars, loopVars>>

\* connector.py:144-149
on_disconnected ==
    /\ Dispatch(DisconnectedN)
    /\ connected' = FALSE
    /\ calls' = Notify(calls, FALSE)
    /\ UNCHANGED <<status_callbacks, max_attempts, ibConnected, pc, attempt,
                   op, result, nConnect, nRaised, nBackoff, nDisconnect,
                   sleeps, startConnected, startIb, everIb>>
    /\ cycle' = cycle
    /\ UNCHANGED <<mdVars, cfgVars, loopVars>>

\* if errorCode in critical_errors (connector.py:166)
IsCritical(errorCode) == InList(errorCode, critical_errors)

\* connector.py:151-170
on_error(errorCode) ==
    /\ Dispatch(<<"error", errorCode>>)
    /\ IF IsCritical(errorCode)
          THEN connected' = FALSE /\ calls' = Notify(calls, FALSE)
          ELSE connected' = connected /\ calls' = calls
    /\ UNCHANGED <<status_callbacks, max_attempts, ibConnected, pc, attempt,
                   op, result, nConnect, nRaised, nBackoff, nDisconnect,
                   sleeps, startConnected, startIb, everIb>>
    /\ cycle' = cycle
    /\ UNCHANGED <<mdVars, cfgVars, loopVars>>

\* ------------------------------------------------------------- gateway
\* The caller's thread is outside the event loop; what the gateway sends now
\* waits in the queue.
Outside == pc = "idle"

\* The gateway reports an error.  Its code is read only by the handler, so
\* the model draws the code when the notification is handled.
gateway_error ==
    /\ Outside
    /\ Len(pending) < MaxPending
    /\ pending' = Append(pending, ErrorN)
    /\ UNCHANGED <<connected, status_callbacks, max_attempts, ibConnected, pc,
                   attempt, op, result, calls, delivered, nConnect, nRaised,
                   nBackoff, nDisconnect, sleeps, startConnected, startIb,
                   everIb, lastLifecycle>>
    /\ cycle' = 0
    /\ UNCHANGED <<mdVars, cfgVars, loopVars>>

\* the link to the gateway is lost
gateway_drop ==
    /\ Outside
    /\ ibConnected
    /\ Len(pending) < MaxPending
    /\ ibConnected' = FALSE
    /\ pending' = Append(pending, DisconnectedN)
    /\ UNCHANGED <<connected, status_callbacks, max_attempts, pc, attempt, op,
                   result, calls, delivered, nConnect, nRaised, nBackoff,
                   nDisconnect, sleeps, startConnected, startIb, everIb,
                   lastLifecycle>>
    /\ cycle' = 0
    /\ UNCHANGED <<mdVars, cfgVars, loopVars>>

\* ==================================================== MarketDataFetcher
\* src/ibkr/market_data.py.  The fetcher has one field, the transport; the
\* variables below are the locals of the operation in progress and a log of
\* its gateway calls.  Every gateway call (reqHistoricalData,
\* reqSecDefOptParams, reqMktData, ib.sleep, cancelMktData) either returns or
\* raises.  Prices and strikes are integers; a quote field that is None or
\* 0 is falsy in Python and is written 0.  An expiration 'YYYYMMDD' is
\* written as the number with those digits, whose order is the order of the
\* strings.  Sequences are indexed from 1, the code's lists from 0.

\* longest short strike list, longest long strike list, largest offset,
\* longest expiration list, longest short and longest long bar series of
\* the input samples
MaxStrikes == 3
MaxLongStrikes == 22
MaxOffset == 2
MaxExpirations == 2
MaxBars == 2
MaxLongBars == 60

\* market_data.py:138,150: at most 20 strikes are kept
StrikeLimit == 20
\* market_data.py:157: 10 strikes on each side of the middle
HalfWindow == 10
\* market_data.py:239: days to expiry wanted
MinDays == 30
\* market_data.py:77: window of the moving average
SmaWindow == 50

\* ------------------------------------------------------ Python built-ins
Abs(x) == IF x < 0 THEN -x ELSE x
Min(a, b) == IF a <= b THEN a ELSE b
Max(a, b) == IF a >= b THEN a ELSE b

\* insert the pair p = <<key, item>> behind every pair whose key is not
\* greater: the order of equal keys is kept
RECURSIVE InsertPair(_, _)
InsertPair(ps, p) ==
    IF ps = <<>> THEN <<p>>
    ELSE IF p[1] < Head(ps)[1] THEN <<p>> \o ps
    ELSE <<Head(ps)>> \o InsertPair(Tail(ps), p)

RECURSIVE SortPairs(_)
SortPairs(ps) ==
    IF ps = <<>> THEN <<>>
    ELSE InsertPair(SortPairs(SubSeq(ps, 1, Len(ps) - 1)), ps[Len(ps)])

\* sorted(s, key=...): stable, ascending; keys[i] is the key of s[i]
SortedBy(s, keys) ==
    LET ps == SortPairs([i \in 1..Len(s) |-> <<keys[i], s[i]>>])
    IN  [i \in 1..Len(s) |-> ps[i][2]]

\* sorted(s)
Sorted(s) == SortedBy(s, s)

\* s[lo:hi] for 0 <= lo
Slice(s, lo, hi) == SubSeq(s, lo + 1, Min(hi, Len(s)))

ArgMinLast(keys) ==
    CHOOSE i \in 1..Len(keys) :
        /\ \A j \in 1..Len(keys) : keys[i] <= keys[j]
        /\ \A j \in (i + 1)..Len(keys) : keys[j] > keys[i]

\* min(range(len(s)), key=lambda i: keys[i]): the first index of a least
\* key (as a position from 1)
ArgMin(keys) ==
    CHOOSE i \in 1..Len(keys) :
        /\ \A j \in 1..Len(keys) : keys[i] <= keys[j]
        /\ \A j \in 1..(i - 1) : keys[j] > keys[i]

\* ------------------------------------------------------------- dates
\* datetime.strptime(exp, '%Y%m%d').date() and date.toordinal()
IsLeap(y) == y % 4 = 0 /\ (y % 100 # 0 \/ y % 400 = 0)

DaysBeforeMonth(y, m) ==
    <<0, 31, 59, 90, 120, 151, 181, 212, 243, 273, 304, 334>>[m]
        + (IF m > 2 /\ IsLeap(y) THEN 1 ELSE 0)

DaysBeforeYear(y) ==
    (y - 1) * 365 + (y - 1) \div 4 - (y - 1) \div 100 + (y - 1) \div 400

ToOrdinal(ymd) ==
    LET y == ymd \div 10000
        m == (ymd \div 100) % 100
        d == ymd % 100
    IN  DaysBeforeYear(y) + DaysBeforeMonth(y, m) + d

\* market_data.py:231-235: (exp_date - today).days
DaysToExpiry(exp, now) == ToOrdinal(exp) - ToOrdinal(now)

\* ------------------------------------------------------- input samples
\* the sequences over S of length at most n with no repeated entry
DistinctSeqs(S, n) ==
    {q \in UNION {[1..k -> S] : k \in 0..n} :
        \A i, j \in 1..Len(q) : i # j => q[i] # q[j]}

StrikeValues == {10, 20, 30, 40}
ShortStrikeLists == DistinctSeqs(StrikeValues, MaxStrikes)

\* n strikes 5 apart, ascending or descending
LongStrikes(n, ascending) ==
    [i \in 1..n |-> IF ascending THEN 5 * i ELSE 5 * (n + 1 - i)]

LongStrikeLists ==
    {LongStrikes(n, a) : n \in StrikeLimit..MaxLongStrikes, a \in BOOLEAN}

\* quotes of the underlying: last trade and previous close, 0 when absent;
\* around the short strike lists for get_atm_options, around the long ones
\* for get_option_chain
AtmTickers == [last : {0, 12, 15, 20, 45}, close : {0, 26}]
ChainTickers == [last : {0, 12, 58, 120}, close : {0, 26}]

ExpirationDates == {20230519, 20230614, 20230616, 20230721, 20240119}
ExpirationLists == DistinctSeqs(ExpirationDates, MaxExpirations)
Todays == {20230515, 20230601, 20231220}

\* expiration=None, falsy like ''
NoExpiration == 0

\* arguments of get_atm_options: an expiration that the chain lists, one
\* that it does not list, or none
AtmArgs ==
    [expiration : {NoExpiration, 20230616, 20230623},
     call_put : {"CALL", "PUT", "BOTH"},
     otm_offset : 0..MaxOffset]

\* chains[0] of reqSecDefOptParams.  With a caller-chosen expiration the
\* strike lists vary, without one the expiration lists vary.
AtmChains(args) ==
    IF args.expiration = NoExpiration
       THEN [strikes : {<<30, 10, 20>>}, expirations : ExpirationLists]
       ELSE [strikes : ShortStrikeLists,
             expirations : {<<20230616, 20230721>>}]

\* With strike lists that need no narrowing the expiration lists vary;
\* the long strike lists come with one or two expirations.
OptionChains ==
    [strikes : ShortStrikeLists, expirations : ExpirationLists]
    \cup [strikes : LongStrikeLists,
          expirations : {<<20230616>>, <<20230721, 20230616>>}]

\* quotes of an option contract
GreekTickers ==
    {[impliedVol |-> 30, delta |-> 65, gamma |-> 3, vega |-> 12,
      theta |-> -5, last |-> l, close |-> 53, bid |-> 52, ask |-> 55,
      bidSize |-> 10, askSize |-> 15, volume |-> 500,
      openInterest |-> 2000] : l \in {0, 54}}

\* reqHistoricalData: bars with an open and a close
Bars == {[open |-> 10, close |-> 12], [open |-> 12, close |-> 10],
         [open |-> 11, close |-> 11]}
ShortBarLists == UNION {[1..k -> Bars] : k \in 0..MaxBars}

\* n bars around the window of the moving average: closes rising by one
\* from 100 (green), falling by one from 200 (red), or going up and down
\* around an open of 105
LongBars(n, shape) ==
    [i \in 1..n |->
        IF shape = "rising" THEN [open |-> 98 + i, close |-> 99 + i]
        ELSE IF shape = "falling" THEN [open |-> 201 - i, close |-> 200 - i]
        ELSE [open |-> 105, close |-> 100 + ((7 * i) % 13)]]

LongBarLists ==
    {LongBars(n, shape) : n \in (SmaWindow - 1)..MaxLongBars,
                          shape \in {"rising", "falling", "zigzag"}}

BarLists == ShortBarLists \cup LongBarLists

\* ------------------------------------------------- results and contracts
EmptyFrame == <<"DataFrame", <<>>>>
EmptyList == <<"list", <<>>>>
EmptyDict == <<"dict", <<>>>>

\* d[k] = v
DictPut(d, k, v) == [x \in DOMAIN d \cup {k} |-> IF x = k THEN v ELSE d[x]]

\* Option(symbol, expiration, strike, right, exchange)
Option(expiration, strike, right) ==
    [lastTradeDateOrContractMonth |-> expiration, strike |-> strike,
     right |-> right]

LastPriceCloseFirst(ticker) ==
    IF ticker.close # 0 THEN ticker.close ELSE ticker.last

\* market_data.py:144,200: ticker.last if ... ticker.last else ticker.close
LastPrice(ticker) == IF ticker.last # 0 THEN ticker.last ELSE ticker.close

\* ------------------------------------------------------ get_option_chain
\* market_data.py:149-150
NearestStrikes(s, price) ==
    Slice(SortedBy(s, [i \in 1..Len(s) |-> Abs(s[i] - price)]),
          0, StrikeLimit)

\* market_data.py:155-157
MiddleStrikes(s) ==
    LET middle == Len(s) \div 2
    IN  Slice(Sorted(s), middle - HalfWindow, middle + HalfWindow)

OptionsForCallsOnly(expiration, s) ==
    [i \in 1..(2 * Len(Sorted(s))) |->
        Option(expiration, Sorted(s)[(i + 1) \div 2], "C")]

\* market_data.py:160-165: a call and a put per strike, strikes ascending
OptionsFor(expiration, s) ==
    LET t == Sorted(s)
    IN  [i \in 1..(2 * Len(t)) |->
            Option(expiration, t[(i + 1) \div 2],
                   IF i % 2 = 1 THEN "C" ELSE "P")]

\* ------------------------------------------------------- get_atm_options
SelectExpirationNearest(listed, now) == Sorted(listed)[1]

\* market_data.py:226-248, for a non-empty list
SelectExpiration(listed, now) ==
    LET exps == Sorted(listed)
        valid_exps ==
            SelectSeq(exps, LAMBDA e : DaysToExpiry(e, now) >= MinDays)
        days == [i \in 1..Len(valid_exps) |->
                    DaysToExpiry(valid_exps[i], now)]
    IN  IF valid_exps = <<>>
           THEN exps[Len(exps)]
           ELSE SortedBy(valid_exps, days)[1]

\* market_data.py:259
AtmIdx(s, price) == ArgMin([i \in 1..Len(s) |-> Abs(s[i] - price)])

\* market_data.py:262-273
CallIdx(s, price, call_put, otm_offset) ==
    IF otm_offset > 0 /\ call_put \in {"CALL", "BOTH"}
       THEN Min(AtmIdx(s, price) + otm_offset, Len(s))
       ELSE AtmIdx(s, price)

PutIdxUpward(s, price, call_put, otm_offset) ==
    IF otm_offset > 0 /\ call_put \in {"PUT", "BOTH"}
       THEN Min(AtmIdx(s, price) + otm_offset, Len(s))
       ELSE AtmIdx(s, price)

PutIdx(s, price, call_put, otm_offset) ==
    IF otm_offset > 0 /\ call_put \in {"PUT", "BOTH"}
       THEN Max(AtmIdx(s, price) - otm_offset, 1)
       ELSE AtmIdx(s, price)

\* market_data.py:253-285, for a non-empty strike list
AtmOptions(args, expiration, listed, price) ==
    LET s == Sorted(listed)
    IN  (IF args.call_put \in {"CALL", "BOTH"}
            THEN <<Option(expiration,
                          s[CallIdx(s, price, args.call_put,
                                    args.otm_offset)], "C")>>
            ELSE <<>>)
        \o
        (IF args.call_put \in {"PUT", "BOTH"}
            THEN <<Option(expiration,
                          s[PutIdx(s, price, args.call_put,
                                   args.otm_offset)], "P")>>
            ELSE <<>>)

\* ----------------------------------------------------- get_option_greeks
\* market_data.py:309-322
Greeks(t) ==
    [impliedVol |-> t.impliedVol, delta |-> t.delta, gamma |-> t.gamma,
     vega |-> t.vega, theta |-> t.theta,
     optPrice |-> IF t.last # 0 THEN t.last ELSE t.close,
     bidPrice |-> t.bid, askPrice |-> t.ask, bidSize |-> t.bidSize,
     askSize |-> t.askSize, volume |-> t.volume,
     openInterest |-> t.openInterest]

\* --------------------------------------------------- get_historical_bars
\* the sum of the closes of bars lo..hi
RECURSIVE SumCloses(_, _, _)
SumCloses(bars, lo, hi) ==
    IF lo > hi THEN 0 ELSE bars[lo].close + SumCloses(bars, lo + 1, hi)

RollingMeanShortWindow(bars, i) ==
    IF i >= SmaWindow - 1
       THEN <<SumCloses(bars, i - SmaWindow + 2, i), SmaWindow>>
       ELSE <<>>

\* market_data.py:77: rolling(window=50).mean() at row i: NaN, written <<>>,
\* on the first SmaWindow - 1 rows, then the mean of the last SmaWindow
\* closes, written as the fraction <<sum, SmaWindow>>
RollingMean(bars, i) ==
    IF i >= SmaWindow
       THEN <<SumCloses(bars, i - SmaWindow + 1, i), SmaWindow>>
       ELSE <<>>

\* market_data.py:72-88: the frame's rows with the sma50 and green_candle
\* columns (the return and volatility columns are not carried)
Frame(bars) ==
    [i \in 1..Len(bars) |->
        [open |-> bars[i].open, close |-> bars[i].close,
         sma50 |-> RollingMean(bars, i),
         green_candle |-> bars[i].close > bars[i].open]]

\* ------------------------------------------------------------ operations
\* no market-data operation has run; the connector is as constructed
MdInit == Init /\ max_attempts = MaxAttempts

ResetLocals ==
    /\ last_price' = 0
    /\ strikes' = <<>>
    /\ expirations' = <<>>
    /\ today' = 0
    /\ idx' = 0
    /\ option_chains' = <<>>
    /\ quotes' = <<>>

\* a public method is entered; its locals and the call log start afresh
MdEnter(name, args, at) ==
    /\ mdPc = "idle"
    /\ mdOp' = name
    /\ mdArgs' = args
    /\ mdPc' = at
    /\ ResetLocals
    /\ mdResult' = <<"none", <<>>>>
    /\ gwCalls' = <<>>

\* the gateway call at which the operation stands returns or raises
Gateway(outcome) == gwCalls' = Append(gwCalls, <<mdPc, outcome>>)

MdReturn(value) == mdPc' = "idle" /\ mdResult' = value

EmptyOfAlwaysList(name) == EmptyList

\* what the operation's except clause returns
EmptyOf(name) ==
    IF name = "get_historical_bars" THEN EmptyFrame
    ELSE IF name = "get_atm_options" THEN EmptyList
    ELSE EmptyDict

\* what get_historical_bars returns for each series of bars the gateway
\* may answer with (market_data.py:67-88)
HistoricalFrames ==
    {IF bars = <<>> THEN EmptyFrame ELSE <<"DataFrame", Frame(bars)>> :
        bars \in BarLists}

\* market_data.py:34-92
get_historical_bars ==
    /\ mdPc = "idle"
    /\ mdOp' = "get_historical_bars"
    /\ mdArgs' = <<>>
    /\ mdPc' = "idle"
    /\ ResetLocals
    /\ \/ /\ gwCalls' = <<<<"reqHistoricalData", "raised">>>>
          /\ mdResult' = EmptyFrame
       \/ \E frame \in HistoricalFrames :
             /\ gwCalls' = <<<<"reqHistoricalData", "returned">>>>
             /\ mdResult' = frame
    /\ UNCHANGED <<vars, cfgVars, loopVars>>

\* market_data.py:175-196
get_atm_options(args) ==
    /\ MdEnter("get_atm_options", args, "reqMktData")
    /\ UNCHANGED <<vars, cfgVars, loopVars>>

\* market_data.py:291-305
get_option_greeks ==
    /\ MdEnter("get_option_greeks", <<>>, "reqMktData")
    /\ UNCHANGED <<vars, cfgVars, loopVars>>

\* market_data.py:94-112
get_option_chain ==
    /\ MdEnter("get_option_chain", <<>>, "reqSecDefOptParams")
    /\ UNCHANGED <<vars, cfgVars, loopVars>>

\* market_data.py:160-167, then the next pass of the loop of line 130
EmitOptions(kept) ==
    /\ option_chains' =
          DictPut(option_chains, expirations[idx],
                  OptionsFor(expirations[idx], kept))
    /\ idx' = idx + 1
    /\ mdPc' = "for_expiration"
    /\ UNCHANGED <<mdOp, mdArgs, strikes, expirations, today, mdResult>>

\* an exception reaches the except clause that encloses the quote calls:
\* get_option_chain's inner one (151-157) falls back to the middle strikes
\* and goes on, the others (287-289, 329-331) return the empty result
QuoteExcept ==
    IF mdOp = "get_option_chain"
       THEN /\ EmitOptions(IF Len(strikes) > StrikeLimit
                              THEN MiddleStrikes(strikes) ELSE strikes)
            /\ UNCHANGED <<last_price, quotes>>
       ELSE /\ MdReturn(EmptyOf(mdOp))
            /\ UNCHANGED <<mdOp, mdArgs, last_price, strikes, expirations,
                           today, idx, option_chains, quotes>>

\* market_data.py:142,196,305
reqMktData_returns ==
    /\ mdPc = "reqMktData"
    /\ Gateway("returned")
    /\ mdPc' = "sleep"
    /\ UNCHANGED <<mdOp, mdArgs, last_price, strikes, expirations, today,
                   idx, option_chains, quotes, mdResult>>
    /\ UNCHANGED <<vars, cfgVars, loopVars>>

reqMktData_raises ==
    /\ mdPc = "reqMktData"
    /\ Gateway("raised")
    /\ QuoteExcept
    /\ UNCHANGED <<vars, cfgVars, loopVars>>

\* market_data.py:143-144,197-200,306-322: the wait is over and the quote
\* is read
sleep_returns ==
    /\ mdPc = "sleep"
    /\ Gateway("returned")
    /\ \E ticker \in (IF mdOp = "get_option_greeks" THEN GreekTickers
                     ELSE IF mdOp = "get_atm_options" THEN AtmTickers
                     ELSE ChainTickers) :
          /\ quotes' = Append(quotes, ticker)
          /\ last_price' = LastPrice(ticker)
    /\ mdPc' = "cancelMktData"
    /\ UNCHANGED <<mdOp, mdArgs, strikes, expirations, today, idx,
                   option_chains, mdResult>>
    /\ UNCHANGED <<vars, cfgVars, loopVars>>

sleep_raises ==
    /\ mdPc = "sleep"
    /\ Gateway("raised")
    /\ QuoteExcept
    /\ UNCHANGED <<vars, cfgVars, loopVars>>

\* market_data.py:145-150,201-205,325-327
cancelMktData_returns ==
    /\ mdPc = "cancelMktData"
    /\ Gateway("returned")
    /\ IF mdOp = "get_option_chain"
          THEN /\ EmitOptions(IF last_price # 0
                                 THEN NearestStrikes(strikes, last_price)
                                 ELSE strikes)
               /\ UNCHANGED <<last_price, quotes>>
          ELSE /\ IF mdOp = "get_option_greeks"
                     THEN MdReturn(<<"dict", Greeks(quotes[Len(quotes)])>>)
                     ELSE IF last_price = 0
                             THEN MdReturn(EmptyList)
                             ELSE mdPc' = "reqSecDefOptParams"
                                  /\ UNCHANGED mdResult
               /\ UNCHANGED <<mdOp, mdArgs, last_price, strikes, expirations,
                              today, idx, option_chains, quotes>>
    /\ UNCHANGED <<vars, cfgVars, loopVars>>

cancelMktData_raises ==
    /\ mdPc = "cancelMktData"
    /\ Gateway("raised")
    /\ QuoteExcept
    /\ UNCHANGED <<vars, cfgVars, loopVars>>

\* market_data.py:112-121,210-219 and 171-173,287-289
reqSecDefOptParams_raises ==
    /\ mdPc = "reqSecDefOptParams"
    /\ Gateway("raised")
    /\ MdReturn(EmptyOf(mdOp))
    /\ UNCHANGED <<mdOp, mdArgs, last_price, strikes, expirations, today,
                   idx, option_chains, quotes>>
    /\ UNCHANGED <<vars, cfgVars, loopVars>>

\* market_data.py:119-121,217-219: chains is empty
reqSecDefOptParams_empty ==
    /\ mdPc = "reqSecDefOptParams"
    /\ Gateway("empty")
    /\ MdReturn(EmptyOf(mdOp))
    /\ UNCHANGED <<mdOp, mdArgs, last_price, strikes, expirations, today,
                   idx, option_chains, quotes>>
    /\ UNCHANGED <<vars, cfgVars, loopVars>>

\* market_data.py:124-130: chain = chains[0]; the loop starts
chain_listed ==
    /\ mdPc = "reqSecDefOptParams"
    /\ mdOp = "get_option_chain"
    /\ Gateway("returned")
    /\ \E chain \in OptionChains :
          /\ strikes' = chain.strikes
          /\ expirations' = chain.expirations
    /\ idx' = 1
    /\ mdPc' = "for_expiration"
    /\ UNCHANGED <<mdOp, mdArgs, last_price, today, option_chains, quotes,
                   mdResult>>
    /\ UNCHANGED <<vars, cfgVars, loopVars>>

\* market_data.py:130-169: one expiration of the loop, up to its quote
\* request when there are more than StrikeLimit strikes; or the return
for_expiration ==
    /\ mdPc = "for_expiration"
    /\ IF idx > Len(expirations)
          THEN /\ MdReturn(<<"dict", option_chains>>)
               /\ UNCHANGED <<mdOp, mdArgs, strikes, expirations, today, idx,
                              option_chains>>
          ELSE IF Len(strikes) > StrikeLimit
                  THEN /\ mdPc' = "reqMktData"
                       /\ UNCHANGED <<mdOp, mdArgs, strikes, expirations,
                                      today, idx, option_chains, mdResult>>
                  ELSE EmitOptions(strikes)
    /\ UNCHANGED <<last_price, quotes, gwCalls>>
    /\ UNCHANGED <<vars, cfgVars, loopVars>>

\* market_data.py:221-285: chain = chains[0]; the expiration and the
\* strikes are chosen and the contracts built
atm_listed ==
    /\ mdPc = "reqSecDefOptParams"
    /\ mdOp = "get_atm_options"
    /\ Gateway("returned")
    /\ \E chain \in AtmChains(mdArgs), now \in Todays :
          /\ strikes' = chain.strikes
          /\ expirations' = chain.expirations
          /\ today' = IF mdArgs.expiration = NoExpiration /\ chain.expirations # <<>>
                         THEN now ELSE 0
          /\ mdResult' =
                IF mdArgs.expiration = NoExpiration /\ chain.expirations = <<>>
                   THEN EmptyList
                ELSE IF chain.strikes = <<>>
                   THEN EmptyList
                ELSE <<"list",
                       AtmOptions(mdArgs,
                                  IF mdArgs.expiration = NoExpiration
                                     THEN SelectExpiration(chain.expirations,
                                                           now)
                                     ELSE mdArgs.expiration,
                                  chain.strikes, last_price)>>
    /\ mdPc' = "idle"
    /\ UNCHANGED <<mdOp, mdArgs, last_price, idx, option_chains, quotes>>
    /\ UNCHANGED <<vars, cfgVars, loopVars>>

MdNext ==
    \/ get_historical_bars
    \/ \E args \in AtmArgs : get_atm_options(args)
    \/ get_option_greeks
    \/ get_option_chain
    \/ reqMktData_returns
    \/ reqMktData_raises
    \/ sleep_returns
    \/ sleep_raises
    \/ cancelMktData_returns
    \/ cancelMktData_raises
    \/ reqSecDefOptParams_raises
    \/ reqSecDefOptParams_empty
    \/ chain_listed
    \/ for_expiration
    \/ atm_listed

Next ==
    \/ connect_begin
    \/ connect_raises
    \/ connect_returns
    \/ connect_return
    \/ disconnect_begin
    \/ disconnect_return
    \/ is_connected
    \/ keep_alive
    \/ keep_alive_return
    \/ \E cb \in Observers : add_status_callback(cb)
    \/ \E cb \in Observers : remove_status_callback(cb)
    \/ on_connected
    \/ on_disconnected
    \/ \E errorCode \in ErrorCodes : on_error(errorCode)
    \/ gateway_error
    \/ gateway_drop

Spec == Init /\ [][Next]_allVars

\* ------------------------------------------ observers that unregister
\* The handlers with their loop over self._status_callbacks taken one
\* iteration at a time, and observers that may call remove_status_callback
\* from inside their invocation.

\* A handler up to its loop: the flag is assigned and the list iterator
\* starts at position 0 (connector.py:139-141, 146-148).
HandlerEnters(n, value) ==
    /\ Dispatch(n)
    /\ connected' = value
    /\ loopIndex' = 0
    /\ loopValue' = value
    /\ loopStart' = status_callbacks
    /\ loopRemoved' = {}
    /\ loopInvoked' = <<>>
    /\ loopYield' = pc
    /\ pc' = "notifying"
    /\ UNCHANGED <<status_callbacks, max_attempts, ibConnected, attempt, op,
                   result, calls, nConnect, nRaised, nBackoff, nDisconnect,
                   sleeps, startConnected, startIb, everIb, cycle>>

\* connector.py:137-141
on_connected_enters ==
    /\ HandlerEnters(ConnectedN, TRUE)
    /\ UNCHANGED <<mdVars, cfgVars>>

\* connector.py:144-148
on_disconnected_enters ==
    /\ HandlerEnters(DisconnectedN, FALSE)
    /\ UNCHANGED <<mdVars, cfgVars>>

\* an observer that unregisters nothing
Nobody == "nobody"

\* what remove_status_callback(cb) leaves of the list s (connector.py:133-134)
Removed(s, cb) == IF InList(cb, s) THEN RemoveFirst(s, cb) ELSE s

\* One iteration (connector.py:141-142): the iterator yields the element at
\* its position and moves on, and callback(value) runs.  The observer
\* returns at once (removes = Nobody) or first calls
\* remove_status_callback(removes).
callback_invoked(removes) ==
    /\ pc = "notifying"
    /\ loopIndex < Len(status_callbacks)
    /\ loopIndex' = loopIndex + 1
    /\ calls' = Append(calls, <<status_callbacks[loopIndex + 1], loopValue>>)
    /\ loopInvoked' = Append(loopInvoked, status_callbacks[loopIndex + 1])
    /\ IF removes = Nobody
          THEN /\ status_callbacks' = status_callbacks
               /\ loopRemoved' = loopRemoved
          ELSE /\ status_callbacks' = Removed(status_callbacks, removes)
               /\ loopRemoved' = IF InList(removes, status_callbacks)
                                    THEN loopRemoved \cup {removes}
                                    ELSE loopRemoved
    /\ UNCHANGED <<connected, max_attempts, ibConnected, pending, pc, attempt,
                   op, result, delivered, nConnect, nRaised, nBackoff,
                   nDisconnect, sleeps, startConnected, startIb, everIb,
                   lastLifecycle, cycle>>
    /\ UNCHANGED <<loopValue, loopStart, loopYield>>
    /\ UNCHANGED <<mdVars, cfgVars>>

\* The iterator's position has reached the length of the list: the loop and
\* the handler are over, the yield goes on.
loop_exhausted ==
    /\ pc = "notifying"
    /\ loopIndex >= Len(status_callbacks)
    /\ pc' = loopYield
    /\ UNCHANGED <<connected, status_callbacks, max_attempts, ibConnected,
                   pending, attempt, op, result, calls, delivered, nConnect,
                   nRaised, nBackoff, nDisconnect, sleeps, startConnected,
                   startIb, everIb, lastLifecycle, cycle>>
    /\ UNCHANGED <<mdVars, cfgVars, loopVars>>

LoopNext ==
    \/ \E cb \in Observers : add_status_callback(cb)
    \/ connect_begin
    \/ connect_raises
    \/ connect_returns
    \/ connect_return
    \/ disconnect_begin
    \/ disconnect_return
    \/ on_connected_enters
    \/ on_disconnected_enters
    \/ \E cb \in Observers \cup {Nobody} : callback_invoked(cb)
    \/ loop_exhausted

\* IBConnector with observers that may unregister observers when invoked
SpecLoop == Init /\ [][LoopNext]_allVars

\* connect() and disconnect() on a connector without observers, when
\* ib.sleep(0.1) may raise inside connect()'s try block
NextSleepRaises ==
    \/ connect_begin
    \/ connect_raises
    \/ connect_returns
    \/ connect_sleep_raises
    \/ connect_return
    \/ disconnect_begin
    \/ disconnect_return
    \/ on_connected
    \/ on_disconnected
    \/ \E errorCode \in ErrorCodes : on_error(errorCode)
    \/ gateway_error
    \/ gateway_drop

SpecSleepRaises == Init /\ [][NextSleepRaises]_allVars

\* a step of connect()'s own thread: ib.connect() returns or raises within
\* its timeout, ib.sleep(0.1) and time.sleep(1) come back
ConnectStep ==
    \/ connect_raises
    \/ connect_returns
    \/ connect_sleep_raises
    \/ connect_return

SpecSleepRaisesLive == SpecSleepRaises /\ WF_allVars(ConnectStep)

\* the market-data operations, over a connector that is left alone
SpecMD == MdInit /\ [][MdNext]_allVars

\* ========================================================== load_config
\* config/loader.py.  A YAML scalar is <<type, value>>: "int", "bool" (1 for
\* true, 0 for false), "float" (its value in tenths: 8 is 0.8), "str" and
\* "null".  A mapping is a function from its keys.

\* most settings one document of the sample carries
MaxSettings == 2

\* the keys load_config reads, as <<section, key>>
Keys ==
    {<<"ibkr", "host">>, <<"ibkr", "port">>, <<"ibkr", "client_id">>,
     <<"strategy", "sma_period">>, <<"strategy", "candle_count">>,
     <<"strategy", "otm_offset">>, <<"strategy", "iv_threshold">>,
     <<"strategy", "min_reward_risk">>}

\* scalars a document gives a key
YamlValues ==
    {<<"int", -1>>, <<"int", 0>>, <<"int", 1>>, <<"int", 2>>,
     <<"float", -5>>, <<"float", 0>>, <<"float", 8>>, <<"float", 10>>,
     <<"float", 15>>, <<"str", "localhost">>, <<"bool", 1>>, <<"null", 0>>}

\* the nested mapping yaml.safe_load returns for the settings f
Nest(f) ==
    [s \in {k[1] : k \in DOMAIN f} |->
        [n \in {k[2] : k \in {x \in DOMAIN f : x[1] = s}} |-> f[<<s, n>>]]]

\* the sets of keys a document of the sample sets: at most MaxSettings
KeySets == {K \in SUBSET Keys : Cardinality(K) <= MaxSettings}

\* if section not in data: data[section] = {}  (loader.py:28-31)
Section(data, s) == IF s \in DOMAIN data THEN data[s] ELSE <<>>

\* dict.setdefault(k, v)
SetDefault(d, k, v) ==
    IF k \in DOMAIN d THEN d
    ELSE [x \in DOMAIN d \cup {k} |-> IF x = k THEN v ELSE d[x]]

\* loader.py:28-43
WithDefaults(data) ==
    [ibkr |->
        SetDefault(SetDefault(SetDefault(Section(data, "ibkr"),
            "host", <<"str", "127.0.0.1">>),
            "port", <<"int", 7497>>),
            "client_id", <<"int", 1>>),
     strategy |->
        SetDefault(SetDefault(SetDefault(SetDefault(SetDefault(
            Section(data, "strategy"),
            "sma_period", <<"int", 50>>),
            "candle_count", <<"int", 2>>),
            "otm_offset", <<"int", 1>>),
            "iv_threshold", <<"float", 8>>),
            "min_reward_risk", <<"float", 10>>)]

\* isinstance(v, str)
IsStr(v) == v[1] = "str"

\* isinstance(v, int): bool is a subclass of int
IsInt(v) == v[1] \in {"int", "bool"}

\* isinstance(v, float)
IsFloat(v) == v[1] = "float"

\* _validate_config: the message of the first assertion that fails, "" when
\* none does (loader.py:50-79)
validate_config(c) ==
    IF ~IsStr(c.ibkr["host"]) THEN "IBKR host must be a string"
    ELSE IF ~IsInt(c.ibkr["port"]) THEN "IBKR port must be an integer"
    ELSE IF ~IsInt(c.ibkr["client_id"]) THEN "IBKR client_id must be an integer"
    ELSE IF ~IsInt(c.strategy["sma_period"]) THEN "SMA period must be an integer"
    ELSE IF ~(c.strategy["sma_period"][2] > 0) THEN "SMA period must be positive"
    ELSE IF ~IsInt(c.strategy["candle_count"]) THEN "Candle count must be an integer"
    ELSE IF ~(c.strategy["candle_count"][2] > 0) THEN "Candle count must be positive"
    ELSE IF ~IsInt(c.strategy["otm_offset"]) THEN "OTM offset must be an integer"
    ELSE IF ~(c.strategy["otm_offset"][2] >= 0) THEN "OTM offset must be non-negative"
    ELSE IF ~IsFloat(c.strategy["iv_threshold"]) THEN "IV threshold must be a float"
    ELSE IF ~(0 <= c.strategy["iv_threshold"][2] /\ c.strategy["iv_threshold"][2] <= 10)
         THEN "IV threshold must be between 0 and 1"
    ELSE IF ~IsFloat(c.strategy["min_reward_risk"]) THEN "Min reward/risk must be a float"
    ELSE IF ~(c.strategy["min_reward_risk"][2] > 0) THEN "Min reward/risk must be positive"
    ELSE ""

\* what load_config(path) gives for the document data (loader.py:27-48)
LoadConfig(data) ==
    LET c == WithDefaults(data)
    IN  IF validate_config(c) = "" THEN <<"returned", c>>
        ELSE <<"AssertionError", validate_config(c)>>

CfgInit == Init /\ max_attempts = MaxAttempts

\* load_config(path), up to the parsed document: the file at path holds
\* data, a mapping whose sections are mappings (loader.py:9-25).  One run
\* of the model is one call.
safe_load ==
    /\ config[1] = "none"
    /\ \E K \in KeySets : \E f \in [K -> YamlValues] : path' = Nest(f)
    /\ config' = <<"loading", <<>>>>
    /\ UNCHANGED <<vars, mdVars, loopVars>>

\* the rest of load_config: sections, defaults, validation, return
\* (loader.py:27-48)
load_config ==
    /\ config[1] = "loading"
    /\ config' = LoadConfig(path)
    /\ UNCHANGED path
    /\ UNCHANGED <<vars, mdVars, loopVars>>

CfgNext ==
    \/ safe_load
    \/ load_config

\* load_config called on a document of the sample
SpecCfg == CfgInit /\ [][CfgNext]_allVars

\* ================================================================ claims
Returned(name) == pc = "idle" /\ op = name

\* every ib.connect() invocation of the operation raised
AllRaised == nRaised = nConnect

\* the connected / disconnected / critical-error notifications of a log
LifecycleOf(log) == SelectSeq(log, LAMBDA n : Lifecycle(n) # "other")

\* one invocation with value v per registration, in registration order
OncePerCallback(v) ==
    [i \in 1..Len(status_callbacks) |-> <<status_callbacks[i], v>>]

\* the last k entries of a log
LastK(log, k) == SubSeq(log, Len(log) - k + 1, Len(log))

\* --- C1: in every reachable state is_connected() is true exactly when the
\* most recent lifecycle notification handled (connected, disconnected,
\* critical error) was a connected one; and the flag changes only in a step
\* in which a handler takes a lifecycle notification inside a yield: no step
\* of connect(), disconnect(), keep_alive() or callback registration, which
\* move pc or op, changes it.
C1_HandlerStep ==
    /\ InYield
    /\ pc' = pc /\ op' = op
    /\ Len(delivered') = Len(delivered) + 1
    /\ Lifecycle(delivered'[Len(delivered')]) # "other"

C1_FlagFollowsLifecycle ==
    /\ [](connected <=> (lastLifecycle = "connected"))
    /\ [][connected' # connected => C1_HandlerStep]_vars

C1_Witness ==
    /\ lastLifecycle = "critical"
    /\ ~connected
    /\ startConnected
    /\ op = "keep_alive"

\* --- C2: a connect() with max_attempts = N >= 1 in which every ib.connect()
\* raises has made exactly N invocations when it returns, returns False,
\* has handled no notification and invoked no observer, and leaves the flag
\* as it found it (Disconnected stays Disconnected).
C2_ExhaustedRetries ==
    (Returned("connect") /\ max_attempts >= 1 /\ AllRaised) =>
        /\ nConnect = max_attempts
        /\ result = FALSE
        /\ calls = <<>>
        /\ delivered = <<>>
        /\ connected = startConnected

C2_Witness ==
    /\ Returned("connect")
    /\ max_attempts = 3
    /\ nRaised = 3
    /\ ~startConnected /\ ~connected
    /\ Len(status_callbacks) = 2
    /\ pending # <<>>

C4_ErrorStep(code) ==
    /\ InYield
    /\ pc' = pc
    /\ delivered' = Append(delivered, <<"error", code>>)

C4_CriticalErrorsOnly ==
    [][\A code \in ErrorCodes :
         (connected /\ C4_ErrorStep(code)) =>
            IF code \in {1100, 1101, 1102, 1300, 2110}
               THEN /\ ~connected'
                    /\ calls' = calls \o OncePerCallback(FALSE)
                    /\ status_callbacks' = status_callbacks
               ELSE /\ connected'
                    /\ calls' = calls
                    /\ status_callbacks' = status_callbacks]_vars

C4_Witness ==
    /\ op = "keep_alive"
    /\ startConnected
    /\ delivered = << <<"error", 2110>> >>
    /\ ~connected
    /\ Len(status_callbacks) = 2
    /\ calls = OncePerCallback(FALSE)

C7_DisconnectNeverConnected ==
    (Returned("disconnect") /\ ~everIb) =>
        /\ result = TRUE
        /\ nDisconnect = 0
        /\ sleeps = <<>>
        /\ calls = <<>>
        /\ ~connected

C7_Witness ==
    /\ Returned("disconnect")
    /\ ~everIb
    /\ Len(status_callbacks) = 2
    /\ pending # <<>>

\* --- C8 as stated: a disconnect() called directly after a disconnect() has
\* returned is a no-op that returns True: no transport call, no yield, no
\* observer invoked, connector and transport state as they were.
C8_SecondDisconnectNoOp ==
    [][(Returned("disconnect") /\ disconnect_begin) =>
          /\ pc' = "idle"
          /\ result' = TRUE
          /\ nDisconnect' = 0
          /\ calls' = <<>>
          /\ connected' = connected
          /\ ibConnected' = ibConnected
          /\ pending' = pending
          /\ status_callbacks' = status_callbacks]_vars

\* --- C9 as stated: a disconnect() called while ib.isConnected() answers
\* False returns True and makes no ib.disconnect() call, whatever the flag.
C9_TransportDownIsSuccess ==
    (Returned("disconnect") /\ ~startIb) =>
        (result = TRUE /\ nDisconnect = 0)

\* --- C10: a disconnect() called while Connected (flag True, transport
\* connected) makes exactly one ib.disconnect() call and yields once; when
\* its disconnected notification, the last one queued, has been handled by
\* the time it returns, it returns True with the flag False, that
\* notification invoked every registered callback once with False, and when
\* it was the only lifecycle notification of the yield those are all the
\* invocations.
C10_DisconnectWhileConnected ==
    (Returned("disconnect") /\ startConnected /\ startIb) =>
        /\ nDisconnect = 1
        /\ sleeps = <<1>>
        /\ (delivered # <<>> /\ pending = <<>>) =>
              /\ delivered[Len(delivered)] = DisconnectedN
              /\ result = TRUE
              /\ ~connected
              /\ Len(calls) >= Len(status_callbacks)
              /\ LastK(calls, Len(status_callbacks)) = OncePerCallback(FALSE)
        /\ (LifecycleOf(delivered) = <<DisconnectedN>>) =>
              /\ result = TRUE
              /\ ~connected
              /\ calls = OncePerCallback(FALSE)

C10_Witness ==
    /\ Returned("disconnect")
    /\ startConnected /\ startIb
    /\ LifecycleOf(delivered) = <<DisconnectedN>>
    /\ pending = <<>>
    /\ Len(status_callbacks) = 2
    /\ status_callbacks[1] # status_callbacks[2]

\* the first position of x in s, 0 when x does not occur
FirstIndex(s, x) ==
    IF \E i \in 1..Len(s) : s[i] = x
       THEN CHOOSE i \in 1..Len(s) :
                s[i] = x /\ \A j \in 1..(i - 1) : s[j] # x
       ELSE 0

\* s without its k-th entry, the others in their order
WithoutIndex(s, k) ==
    [i \in 1..(Len(s) - 1) |-> IF i < k THEN s[i] ELSE s[i + 1]]

\* --- C13: registering an observer appends one registration at the end of
\* the list; removing an observer that is registered takes away its earliest
\* registration and keeps the others in their order; removing one that is
\* not registered leaves the list as it was and completes normally; a
\* handler step invokes nothing or exactly the current registrations, once
\* each, in registration order, with one value; so every invocation logged
\* is of an observer that is registered at that moment, and an observer
\* whose registration was removed is invoked by no later transition.
C13_Step ==
    /\ \A cb \in Observers : add_status_callback(cb) =>
          /\ status_callbacks' = status_callbacks \o <<cb>>
          /\ pc' = "idle"
    /\ \A cb \in Observers : remove_status_callback(cb) =>
          /\ pc' = "idle"
          /\ IF FirstIndex(status_callbacks, cb) = 0
                THEN status_callbacks' = status_callbacks
                ELSE status_callbacks' =
                        WithoutIndex(status_callbacks,
                                     FirstIndex(status_callbacks, cb))
    /\ (on_connected \/ on_disconnected
          \/ \E errorCode \in ErrorCodes : on_error(errorCode)) =>
          /\ status_callbacks' = status_callbacks
          /\ \/ calls' = calls
             \/ \E v \in BOOLEAN : calls' = calls \o OncePerCallback(v)

C13_RegisteredObserversInOrder ==
    /\ [][C13_Step]_vars
    /\ [](\A i \in 1..Len(calls) :
             \E j \in 1..Len(status_callbacks) :
                 status_callbacks[j] = calls[i][1])

C13_Witness ==
    /\ Returned("keep_alive")
    /\ status_callbacks = <<"cb2", "cb1">>
    /\ Len(calls) = 2
    /\ calls[1][1] = "cb2" /\ calls[2][1] = "cb1"

\* --- C14: keep_alive() called with the flag True makes exactly one
\* transport call, an event-loop yield of zero seconds, and no connect or
\* disconnect call; called with the flag False it makes no transport call,
\* changes no field of the connector and returns at once; is_connected()
\* makes no transport call, changes no field and reports the flag.
C14_Step ==
    /\ keep_alive =>
          /\ nConnect' = 0 /\ nDisconnect' = 0
          /\ IF connected
                THEN sleeps' = <<0>> /\ pc' = "keep_alive_yield"
                ELSE /\ sleeps' = <<>>
                     /\ pc' = "idle"
                     /\ UNCHANGED <<connected, status_callbacks, max_attempts,
                                    ibConnected, pending>>
    /\ keep_alive_return =>
          sleeps' = <<0>> /\ nConnect' = 0 /\ nDisconnect' = 0
    /\ is_connected =>
          /\ sleeps' = <<>> /\ nConnect' = 0 /\ nDisconnect' = 0
          /\ pc' = "idle"
          /\ result' = connected
          /\ UNCHANGED <<connected, status_callbacks, max_attempts,
                         ibConnected, pending>>

C14_KeepAliveAndQuery ==
    /\ [][C14_Step]_vars
    /\ [](Returned("keep_alive") =>
             /\ nConnect = 0 /\ nDisconnect = 0
             /\ sleeps \in {<<>>, <<0>>}
             /\ (sleeps = <<>>) => (calls = <<>> /\ delivered = <<>>))

C14_Witness ==
    /\ Returned("keep_alive")
    /\ sleeps = <<0>>
    /\ delivered # <<>>

\* ------------------------------------------------- market-data claims
MdReturned(name) == mdPc = "idle" /\ mdOp = name

\* the gateway calls of the operation that match the test
CallsWhere(Test(_)) == Len(SelectSeq(gwCalls, Test))

Raised(name) == <<name, "raised">>

SomeCallRaised == \E i \in 1..Len(gwCalls) : gwCalls[i][2] = "raised"

QuoteCalls == {"reqMktData", "sleep", "cancelMktData"}

\* --- C11: when get_option_chain, get_atm_options or get_option_greeks has
\* returned, by whatever path, it has called cancel-quote once for every
\* subscription its request-quote calls opened.
C11_EverySubscriptionCancelled ==
    (mdPc = "idle" /\ mdOp \in {"get_option_chain", "get_atm_options",
                                "get_option_greeks"}) =>
        CallsWhere(LAMBDA c : c[1] = "cancelMktData")
            = CallsWhere(LAMBDA c : c = <<"reqMktData", "returned">>)

\* --- C12 as stated: when an operation has returned and one of its gateway
\* calls raised, its result is the empty result of its shape.
C12_AnyRaiseGivesEmpty ==
    (mdPc = "idle" /\ SomeCallRaised) =>
        mdResult = <<(CASE mdOp = "get_historical_bars" -> "DataFrame"
                        [] mdOp = "get_atm_options" -> "list"
                        [] OTHER -> "dict"), <<>>>>

\* --- C12, amended: every raise ends in a return of the operation, never
\* in a propagated exception.  When an operation has returned and one of
\* its gateway calls raised, its result is the empty result of its shape
\* (empty frame for get_historical_bars, empty list for get_atm_options,
\* empty mapping for get_option_chain and get_option_greeks), except where
\* get_option_chain's request-quote, yield or cancel-quote raised: that
\* exception is absorbed by the price fallback and the operation returns the
\* mapping with every listed expiration as a key.
C12_RaiseGivesEmptyOrFallback ==
    (mdPc = "idle" /\ SomeCallRaised) =>
        IF mdOp = "get_option_chain"
              /\ gwCalls[Len(gwCalls)] # Raised("reqSecDefOptParams")
           THEN /\ mdResult[1] = "dict"
                /\ DOMAIN mdResult[2]
                      = {expirations[i] : i \in 1..Len(expirations)}
                /\ \A i \in 1..Len(gwCalls) :
                      gwCalls[i][2] = "raised" => gwCalls[i][1] \in QuoteCalls
           ELSE /\ gwCalls[Len(gwCalls)][2] = "raised"
                /\ mdResult = <<(CASE mdOp = "get_historical_bars" -> "DataFrame"
                                   [] mdOp = "get_atm_options" -> "list"
                                   [] OTHER -> "dict"), <<>>>>

C12_Witness ==
    /\ MdReturned("get_option_chain")
    /\ gwCalls[Len(gwCalls)] = Raised("sleep")
    /\ Len(expirations) = 2
    /\ DOMAIN mdResult[2] = {20230616, 20230721}

\* the contracts returned, the strikes the chain lists, the expirations it
\* lists
Contracts == mdResult[2]
StrikeSet == {strikes[i] : i \in 1..Len(strikes)}
ExpirationSet == {expirations[i] : i \in 1..Len(expirations)}

\* strike a is at least as near to the price as strike b and, when equally
\* near, not above it
NearerOrLower(a, b, price) ==
    \/ Abs(a - price) < Abs(b - price)
    \/ Abs(a - price) = Abs(b - price) /\ a <= b

AtmReturnedContracts ==
    /\ MdReturned("get_atm_options")
    /\ mdResult[2] # <<>>

\* --- C15: when get_atm_options with otm_offset = 0 returns contracts for a
\* chain with strikes S and the price p it obtained, every contract is at one
\* strike K of S, no strike of S is nearer to p than K, and K is the lower
\* one when two strikes are equally near; with call_put = BOTH the result is
\* a Call and a Put, both at K.
C15_AtmStrikeNearestLowerOnTie ==
    (AtmReturnedContracts /\ mdArgs.otm_offset = 0) =>
        /\ \A i \in 1..Len(Contracts) :
              /\ Contracts[i].strike \in StrikeSet
              /\ \A x \in StrikeSet :
                    NearerOrLower(Contracts[i].strike, x, last_price)
        /\ mdArgs.call_put = "BOTH" =>
              /\ Len(Contracts) = 2
              /\ Contracts[1].right = "C" /\ Contracts[2].right = "P"
              /\ Contracts[1].strike = Contracts[2].strike

C15_Witness ==
    /\ AtmReturnedContracts
    /\ mdArgs.otm_offset = 0 /\ mdArgs.call_put = "BOTH"
    /\ {10, 20} \subseteq StrikeSet
    /\ last_price = 15
    /\ Contracts[1].strike = 10 /\ Contracts[2].strike = 10

\* the position, from 1, of strike x in the ascending order of the strikes
Rank(x) == 1 + Cardinality({y \in StrikeSet : y < x})

\* the strike nearest to the price, the lower one of two equally near
AtmStrike ==
    CHOOSE a \in StrikeSet :
        \A x \in StrikeSet : NearerOrLower(a, x, last_price)

\* --- C16: when get_atm_options returns contracts for n strikes, the ATM
\* strike at position a of the ascending order and otm_offset k >= 0, a Call
\* is at position min(a + k, n) and a Put at position max(a - k, 1)
\* (positions from 1), so both are listed strikes, the Call not below and
\* the Put not above the ATM strike; call_put = CALL returns exactly one
\* contract, a Call, call_put = PUT exactly one, a Put, and BOTH a Call
\* followed by a Put.
C16_OffsetClamped ==
    AtmReturnedContracts =>
        /\ \A i \in 1..Len(Contracts) :
              /\ Contracts[i].strike \in StrikeSet
              /\ Contracts[i].right = "C" =>
                    /\ Rank(Contracts[i].strike)
                          = Min(Rank(AtmStrike) + mdArgs.otm_offset,
                                Cardinality(StrikeSet))
                    /\ Contracts[i].strike >= AtmStrike
              /\ Contracts[i].right = "P" =>
                    /\ Rank(Contracts[i].strike)
                          = Max(Rank(AtmStrike) - mdArgs.otm_offset, 1)
                    /\ Contracts[i].strike <= AtmStrike
        /\ [i \in 1..Len(Contracts) |-> Contracts[i].right]
              = CASE mdArgs.call_put = "CALL" -> <<"C">>
                  [] mdArgs.call_put = "PUT" -> <<"P">>
                  [] OTHER -> <<"C", "P">>

C16_Witness ==
    /\ AtmReturnedContracts
    /\ mdArgs.call_put = "BOTH" /\ mdArgs.otm_offset = 2
    /\ Cardinality(StrikeSet) = 3
    /\ Rank(AtmStrike) = 2
    /\ Rank(Contracts[1].strike) = 3
    /\ Rank(Contracts[2].strike) = 1

\* the listed expirations that are at least MinDays days after today
FarEnough == {e \in ExpirationSet : DaysToExpiry(e, today) >= MinDays}

Offered(ticker) == IF ticker.last # 0 THEN ticker.last ELSE ticker.close

\* --- C18: in get_atm_options the price is the quote's last trade when it
\* has one and its previous close otherwise, and it is the price the ATM
\* strike is nearest to; when the quote read after the yield has neither,
\* the operation returns an empty list having made exactly three gateway
\* calls, the request, the yield and the cancel, so the cancel came before
\* the return and chain metadata was never requested; chain metadata is
\* only ever requested with a price in hand and after the cancel; and when
\* the metadata request raises or returns nothing the result is an empty
\* list.
C18_PriceOrEmpty ==
    mdOp = "get_atm_options" =>
        /\ quotes # <<>> =>
              /\ Len(quotes) = 1
              /\ last_price = Offered(quotes[1])
        /\ (mdPc = "idle" /\ quotes # <<>> /\ Offered(quotes[1]) = 0) =>
              /\ mdResult = <<"list", <<>>>>
              /\ Len(gwCalls) = 3
              /\ gwCalls[1] = <<"reqMktData", "returned">>
              /\ gwCalls[2] = <<"sleep", "returned">>
              /\ gwCalls[3][1] = "cancelMktData"
        /\ \A i \in 1..Len(gwCalls) :
              gwCalls[i][1] = "reqSecDefOptParams" =>
                  /\ i = 4
                  /\ gwCalls[3] = <<"cancelMktData", "returned">>
                  /\ Offered(quotes[1]) # 0
        /\ (mdPc = "idle" /\ Len(gwCalls) = 4
              /\ gwCalls[4][2] \in {"raised", "empty"}) =>
              mdResult = <<"list", <<>>>>
        /\ (mdPc = "idle" /\ mdResult[2] # <<>> /\ mdArgs.otm_offset = 0) =>
              \A i \in 1..Len(Contracts), x \in StrikeSet :
                  Abs(Contracts[i].strike - Offered(quotes[1]))
                      <= Abs(x - Offered(quotes[1]))

C18_Witness ==
    /\ MdReturned("get_atm_options")
    /\ quotes = <<[last |-> 0, close |-> 0]>>
    /\ gwCalls[Len(gwCalls)] = <<"cancelMktData", "returned">>
    /\ mdResult = <<"list", <<>>>>

\* --- C19: when get_option_chain returns for metadata with k <= 20 strikes
\* and m expirations, the result is a mapping whose keys are exactly the m
\* expirations; each is mapped to 2k contracts, all carrying that
\* expiration, exactly one Call and one Put for each listed strike; and the
\* metadata request is the only gateway call made: no quote was requested.
C19_FullChain ==
    (MdReturned("get_option_chain")
        /\ gwCalls[1] = <<"reqSecDefOptParams", "returned">>
        /\ Len(strikes) <= 20) =>
        /\ mdResult[1] = "dict"
        /\ DOMAIN mdResult[2] = ExpirationSet
        /\ \A e \in ExpirationSet :
              /\ Len(mdResult[2][e]) = 2 * Len(strikes)
              /\ \A i \in 1..Len(mdResult[2][e]) :
                    mdResult[2][e][i].lastTradeDateOrContractMonth = e
              /\ \A x \in StrikeSet, r \in {"C", "P"} :
                    Cardinality({i \in 1..Len(mdResult[2][e]) :
                                    /\ mdResult[2][e][i].strike = x
                                    /\ mdResult[2][e][i].right = r}) = 1
        /\ Len(gwCalls) = 1

C19_Witness ==
    /\ MdReturned("get_option_chain")
    /\ Len(strikes) = 3
    /\ Len(expirations) = 2
    /\ Len(gwCalls) = 1
    /\ Len(mdResult[2][expirations[1]]) = 6
    /\ Len(mdResult[2][expirations[2]]) = 6

\* the strikes of the contracts the result carries for expiration e
KeptFor(e) ==
    {mdResult[2][e][i].strike : i \in 1..Len(mdResult[2][e])}

\* --- C20: when get_option_chain returns for metadata with more than 20
\* strikes, none of its gateway calls raised and every quote it read offered
\* a price, then for each price p so obtained every expiration of the result
\* carries contracts for exactly 20 strikes and no strike left out is
\* strictly nearer to p than a strike kept.
C20_TwentyNearestToPrice ==
    (MdReturned("get_option_chain") /\ Len(strikes) > 20
        /\ \A i \in 1..Len(gwCalls) : gwCalls[i][2] = "returned"
        /\ \A q \in 1..Len(quotes) : Offered(quotes[q]) # 0) =>
        \A q \in 1..Len(quotes), e \in DOMAIN mdResult[2] :
            /\ Cardinality(KeptFor(e)) = 20
            /\ \A x \in StrikeSet \ KeptFor(e), y \in KeptFor(e) :
                  Abs(x - Offered(quotes[q])) >= Abs(y - Offered(quotes[q]))

\* the strikes at positions floor(n/2)-10 .. floor(n/2)+9, counted from 0, of
\* the ascending order of the n listed strikes
MiddleTwenty ==
    {x \in StrikeSet :
        /\ Rank(x) >= (Cardinality(StrikeSet) \div 2) - 10 + 1
        /\ Rank(x) <= (Cardinality(StrikeSet) \div 2) + 9 + 1}

\* no quote of the operation gave a price: each quote request raised, or
\* its quote was read with neither a last trade nor a close and cancelled
NoLivePrice ==
    /\ \A q \in 1..Len(quotes) : Offered(quotes[q]) = 0
    /\ \A i \in 1..Len(gwCalls) :
          gwCalls[i][2] = "raised" => gwCalls[i][1] = "reqMktData"

\* --- C21: when get_option_chain returns for metadata with n > 20 strikes
\* and no quote of the operation gave a price (the request raised, or the
\* quote read after the yield had neither a last trade nor a close), every
\* expiration of the result carries contracts for exactly the 20 strikes at
\* positions floor(n/2)-10 .. floor(n/2)+9 of the ascending strike list.
C21_MiddleTwentyWithoutPrice ==
    (MdReturned("get_option_chain") /\ Len(strikes) > 20 /\ NoLivePrice) =>
        \A e \in DOMAIN mdResult[2] : KeptFor(e) = MiddleTwenty

\* --- C29: in every result of get_option_chain all expirations carry
\* contracts over one and the same set of strikes.
C29_SameStrikesForEveryExpiration ==
    MdReturned("get_option_chain") =>
        \A e1, e2 \in DOMAIN mdResult[2] : KeptFor(e1) = KeptFor(e2)

\* --- C30: every contract get_atm_options returns has a strike that the
\* chain metadata lists and an expiration that the chain metadata lists,
\* whether the expiration was selected or passed by the caller.
C30_ContractsFromMetadata ==
    AtmReturnedContracts =>
        \A i \in 1..Len(Contracts) :
            /\ Contracts[i].strike \in StrikeSet
            /\ Contracts[i].lastTradeDateOrContractMonth \in ExpirationSet

\* the rows of the frame returned
Rows == mdResult[2]

\* the sum of the closes of the k rows that end at row i
ClosesEndingAt(i, k) ==
    LET sum[j \in 0..k] ==
            IF j = 0 THEN 0 ELSE sum[j - 1] + Rows[i - j + 1].close
    IN  sum[k]

\* --- C22: when get_historical_bars returns a non-empty frame, the sma50 of
\* each of its first 49 rows is absent and the sma50 of every later row is
\* the mean of the closes of the 50 rows that end at it (the sum of those
\* closes over 50); and the green_candle of every row is true exactly when
\* its close is greater than its open.  (Rows are counted from 1: row 50 is
\* the bar of index 49.)
C22_SmaAndGreenCandle ==
    (MdReturned("get_historical_bars") /\ mdResult[2] # <<>>) =>
        \A i \in 1..Len(Rows) :
            /\ Rows[i].green_candle = (Rows[i].close > Rows[i].open)
            /\ i < 50 => Rows[i].sma50 = <<>>
            /\ i >= 50 => Rows[i].sma50 = <<ClosesEndingAt(i, 50), 50>>

C22_Witness ==
    /\ MdReturned("get_historical_bars")
    /\ Len(Rows) = 60
    /\ \A i \in 1..60 : Rows[i].close = 99 + i
    /\ Rows[49].sma50 = <<>>
    /\ Rows[50].sma50 = <<6225, 50>>
    /\ Rows[60].green_candle

\* ------------------------------------------------------------------ C23
\* load_config has returned or raised
Loaded == config[1] \in {"returned", "AssertionError"}

\* a YAML number, in tenths
IsNumber(v) == v[1] \in {"int", "float"}
InTenths(v) == IF v[1] = "float" THEN v[2] ELSE 10 * v[2]

\* the documented rules, on the settings after defaults; an integer is what
\* Python takes for one
DocumentedRules(c) ==
    /\ IsStr(c.ibkr["host"])
    /\ IsInt(c.ibkr["port"])
    /\ IsInt(c.ibkr["client_id"])
    /\ IsInt(c.strategy["sma_period"]) /\ c.strategy["sma_period"][2] > 0
    /\ IsInt(c.strategy["candle_count"]) /\ c.strategy["candle_count"][2] > 0
    /\ IsInt(c.strategy["otm_offset"]) /\ c.strategy["otm_offset"][2] >= 0
    /\ IsNumber(c.strategy["iv_threshold"])
    /\ 0 <= InTenths(c.strategy["iv_threshold"])
    /\ InTenths(c.strategy["iv_threshold"]) <= 10
    /\ IsNumber(c.strategy["min_reward_risk"])
    /\ InTenths(c.strategy["min_reward_risk"]) > 0

\* C23: load_config raises AssertionError exactly when, after the defaults,
\* some setting breaks the documented rules (host a string; port and
\* client_id integers; sma_period and candle_count positive integers;
\* otm_offset an integer >= 0; iv_threshold in [0,1]; min_reward_risk > 0),
\* and every document that keeps the rules is returned with its missing keys
\* filled by the defaults.
C23_AssertionIffRuleBroken ==
    Loaded =>
        /\ (config[1] = "AssertionError") <=> ~DocumentedRules(WithDefaults(path))
        /\ DocumentedRules(WithDefaults(path)) =>
               config = <<"returned", WithDefaults(path)>>

\* C23, one direction: a document load_config returns keeps the documented
\* rules and comes back with the defaults filled in.
C23_ReturnedKeepsRules ==
    config[1] = "returned" =>
        /\ DocumentedRules(WithDefaults(path))
        /\ config[2] = WithDefaults(path)

\* C23, the documents the rules admit and load_config rejects: those whose
\* iv_threshold or min_reward_risk is an integer.
C23_RejectedOnlyForIntegerNumber ==
    (config[1] = "AssertionError" /\ DocumentedRules(WithDefaults(path))) =>
        \/ WithDefaults(path).strategy["iv_threshold"][1] = "int"
        \/ WithDefaults(path).strategy["min_reward_risk"][1] = "int"

\* ------------------------------------------------------------------ C24
\* ib.sleep(0.1) calls of the operation that raised
SleepsRaised == Len(SelectSeq(sleeps, LAMBDA x : x = -1))

\* attempts of the operation that failed
Failed == nRaised + SleepsRaised

\* C24 as stated: connect() never makes more than max_attempts transport
\* connect invocations, makes none after one that does not raise, and has
\* waited k-1 times when invocation k is the first that does not raise, N-1
\* times when all N invocations raise.
C24_StopsAtFirstReturn ==
    op = "connect" =>
        /\ nConnect <= max_attempts
        /\ nConnect - nRaised <= 1
        /\ (nConnect - nRaised = 1) => pc \in {"connect_yield", "idle"}
        /\ Returned("connect") =>
               IF AllRaised
                  THEN /\ nConnect = max_attempts
                       /\ nBackoff = Max(0, max_attempts - 1)
                  ELSE nBackoff = nConnect - 1

\* the counts of connect() at each point of its loop: every attempt before
\* the current one failed and was followed by one wait
C24_Counts ==
    op = "connect" =>
        /\ nConnect <= max_attempts
        /\ pc = "connecting" =>
               /\ attempt = nConnect + 1
               /\ Failed = nConnect
               /\ nBackoff = nConnect
        /\ pc = "connect_yield" =>
               /\ attempt = nConnect
               /\ Failed = nConnect - 1
               /\ nBackoff = nConnect - 1
        /\ pc = "idle" =>
               IF Failed = nConnect
                  THEN /\ nConnect = max_attempts
                       /\ nBackoff = Max(0, max_attempts - 1)
                  ELSE /\ Failed = nConnect - 1
                       /\ nBackoff = nConnect - 1

\* C24: connect() always returns; an attempt is a transport connect
\* invocation followed, when that returns, by the 0.1 yield, and fails when
\* either raises; connect() stops at the first attempt that does not fail,
\* makes at most max_attempts invocations, and waits once after each failed
\* attempt but the last permitted one (k-1 waits when attempt k is the first
\* not to fail, N-1 when all N fail).
C24_TerminatesWithinAttempts ==
    /\ []C24_Counts
    /\ (op = "connect" /\ pc # "idle") ~> Returned("connect")

C24_Witness ==
    /\ Returned("connect")
    /\ max_attempts = 3
    /\ nConnect = 3
    /\ nRaised = 1
    /\ SleepsRaised = 1
    /\ nBackoff = 2
    /\ result = TRUE

\* ------------------------------------------------------------------ C25
\* C25: Disconnected is not final.  Along connect(), disconnect(), connect()
\* called one after the other on a connector that starts Disconnected, the
\* first two returning True and the third meeting an accepting gateway, each
\* operation handling its own notification: the third connect() returns True
\* with the flag True, and the observers, registered throughout, were each
\* invoked once per operation, with True, then False, then True.
C25_ReconnectAfterDisconnect ==
    /\ (cycle = 1 /\ op = "connect") =>
           /\ Returned("connect")
           /\ connected
           /\ calls = OncePerCallback(TRUE)
    /\ (cycle = 2 /\ op = "disconnect") =>
           /\ Returned("disconnect")
           /\ ~connected
           /\ calls = OncePerCallback(FALSE)
    /\ cycle = 3 =>
           /\ Returned("connect")
           /\ result = TRUE
           /\ connected
           /\ calls = OncePerCallback(TRUE)

C25_Witness ==
    /\ cycle = 3
    /\ Len(status_callbacks) = 2
    /\ status_callbacks[1] # status_callbacks[2]

\* ------------------------------------------------------------------ C26
\* C26: observers are invoked only by a step that changes the flag; a
\* critical error handled while the flag is False, and a disconnected
\* notification handled after a critical error, invoke nobody.
C26_NotifiedOnlyOnChange ==
    [][Len(calls') > Len(calls) => connected' # connected]_vars

\* ------------------------------------------------------------------ C28
\* C28 as stated: with no notification waiting, the flag equals what the
\* transport answers.
C28_FlagAgreesWithTransport ==
    pending = <<>> => (connected <=> ibConnected)

\* C28: with no notification waiting, a True flag means the transport is
\* connected, and a False flag on a connected transport means the last
\* lifecycle notification handled was a critical error.
C28_FlagAgreesUnlessCriticalError ==
    pending = <<>> =>
        /\ connected => ibConnected
        /\ (ibConnected /\ ~connected) => lastLifecycle = "critical"

C28_Witness ==
    /\ pending = <<>>
    /\ ibConnected
    /\ ~connected
    /\ lastLifecycle = "critical"
    /\ Returned("keep_alive")

\* ------------------------------------------------------------------ C27
\* how often x occurs in the list s
Occurrences(s, x) == Len(SelectSeq(s, LAMBDA y : y = x))

\* a handler's loop has run to its end
LoopOver ==
    /\ loopStart # <<>>
    /\ ~(pc = "notifying" /\ loopIndex < Len(status_callbacks))

\* C27: when observers call remove_status_callback while a handler's loop
\* runs, every observer that was registered (once) when the loop began and
\* was not removed has been invoked exactly once when the loop is over.
C27_RemainingObserversInvokedOnce ==
    LoopOver =>
        \A cb \in Observers :
            (Occurrences(loopStart, cb) = 1 /\ cb \notin loopRemoved)
                => Occurrences(loopInvoked, cb) = 1

\* C27, the loop nobody unregisters in: the observers registered at its
\* beginning are invoked once each, in order.
C27_UndisturbedLoopInvokesAll ==
    (LoopOver /\ loopRemoved = {}) => loopInvoked = loopStart

\* C27, what the loop does guarantee: nobody is invoked more often than
\* registered at the beginning.
C27_NobodyInvokedTwice ==
    \A cb \in Observers :
        Occurrences(loopInvoked, cb) <= Occurrences(loopStart, cb)

====
